---- MODULE Spec2Model ----
(***************************************************************************)
(* Model of the Oil-Analysis application: the React component App          *)
(* (src/App.tsx lines 57-507) and the analysis service behind it           *)
(* (calculatePearson, detectOutliers, calculateSilhouette, getSuggestedK,  *)
(* performClustering, src/App.tsx lines 512-736).                          *)
(*                                                                         *)
(* Numbers.  JavaScript numbers are modelled in fixed point: the integer x *)
(* stands for the real x / S.  Quotients are rounded to nearest, square    *)
(* roots are rounded down.  NaN and Infinity are explicit values where the *)
(* code can produce them.  Pearson coefficients are kept exact, as a sign  *)
(* and the reduced fraction of r^2.                                        *)
(*                                                                         *)
(* Libraries.  simple-statistics (ss), ml-kmeans (kmeans) and ml-pca       *)
(* (PCA) are not part of the repository; they are modelled by what the     *)
(* calls in the source rely on.  What kmeans takes from its random source  *)
(* is an explicit input of every run.                                      *)
(***************************************************************************)
EXTENDS Integers, Sequences, FiniteSets, TLC

VARIABLES
    data,              \* useState<DataRow[]>             (line 58)
    selectedCols,      \* useState<string[]>              (line 59)
    showSheetSelector, \* line 64
    rawWorkbook,       \* line 65: 0 for null, else the number of a workbook
    clusterResult,     \* useState<ClusterResult | null>  (line 68)
    showModal,         \* 'pearson' | 'cluster' | 'none'  (line 69)
    showModeDropdown,  \* line 70
    reading,           \* the files whose FileReader has not fired onload yet
    lastOp,            \* history: the handler that ran last, with its arguments
    ret                \* outcome of the last direct call of a service function

vars == <<data, selectedCols, showSheetSelector, rawWorkbook, clusterResult,
          showModal, showModeDropdown, reading, lastOp, ret>>

----------------------------------------------------------------------------
(* Bounds of the model *)

MaxRows == 6
MaxSeed == 1
MaxReaders == 1

----------------------------------------------------------------------------
(* Fixed-point arithmetic *)

S == 1000

Abs(x) == IF x < 0 THEN -x ELSE x

Sgn(x) == IF x < 0 THEN -1 ELSE IF x > 0 THEN 1 ELSE 0

\* a / b rounded to the nearest integer, b # 0
RDiv(a, b) == Sgn(a) * Sgn(b) * ((2 * Abs(a) + Abs(b)) \div (2 * Abs(b)))

FMul(x, y) == RDiv(x * y, S)

FDiv(x, y) == RDiv(x * S, y)

RECURSIVE SqrtIter(_, _, _)
SqrtIter(x, lo, hi) ==
    IF lo >= hi THEN lo
    ELSE LET mid == (lo + hi + 1) \div 2
         IN  IF mid * mid <= x THEN SqrtIter(x, mid, hi)
                               ELSE SqrtIter(x, lo, mid - 1)

ISqrt(x) == SqrtIter(x, 0, 46340)

\* Math.sqrt on fixed-point numbers
FSqrt(x) == ISqrt(x * S)

RECURSIVE Gcd(_, _)
Gcd(a, b) == IF b = 0 THEN a ELSE Gcd(b, a % b)

Max2(a, b) == IF a >= b THEN a ELSE b

Min2(a, b) == IF a <= b THEN a ELSE b

----------------------------------------------------------------------------
(* Sequence helpers (Array.prototype.map / filter / reduce) *)

RECURSIVE SumSeq(_)
SumSeq(s) == IF s = <<>> THEN 0 ELSE Head(s) + SumSeq(Tail(s))

Range(s) == {s[i] : i \in 1..Len(s)}

\* A JavaScript array.  TLC keeps a function constructor as a closure that it
\* evaluates again at every application; concatenation makes it a tuple.
Array(f) == f \o <<>>

\* <<1, ..., n>>: data.map((_, i) => i)
Iota(n) == Array([i \in 1..n |-> i])

\* insertion of x into the ascending sequence s
RECURSIVE Insert(_, _)
Insert(x, s) ==
    IF s = <<>> THEN <<x>>
    ELSE IF x <= Head(s) THEN <<x>> \o s
                         ELSE <<Head(s)>> \o Insert(x, Tail(s))

\* Array.prototype.sort((a, b) => a - b)
RECURSIVE SortAsc(_)
SortAsc(s) == IF s = <<>> THEN <<>> ELSE Insert(Head(s), SortAsc(Tail(s)))

----------------------------------------------------------------------------
(* Rows and cells (DataRow, src/types.ts line 2) *)

\* A cell is a number, a string or null; a key a row lacks reads undefined.
\* kind "numstr" is a string that Number() parses, "text" one it does not.
NumCell(n) == [kind |-> "number", v |-> n]

StrNumCell(n) == [kind |-> "numstr", v |-> n]

TextCell == [kind |-> "text", v |-> 0]

NullCell == [kind |-> "null", v |-> 0]

Undefined == [kind |-> "undefined", v |-> 0]

Columns == {"a", "b"}

\* Number(x) || 0 : NaN (text, undefined) and 0 (null, 0) both give 0
NumberOrZero(cell) ==
    LET isNaN == cell.kind \in {"text", "undefined"}
        num   == IF isNaN THEN 0 ELSE cell.v
    IN  IF isNaN \/ num = 0 THEN 0 ELSE num

\* the rows the model's sheets are made of
RowPool ==
    << [a |-> NullCell,   b |-> TextCell],
       [a |-> NumCell(8), b |-> StrNumCell(6)],
       [a |-> NumCell(1), b |-> Undefined] >>

RECURSIVE SortedIdxSeqs(_, _)
\* the ascending sequences of length n over lo..Len(RowPool)
SortedIdxSeqs(n, lo) ==
    IF n = 0 THEN {<<>>}
    ELSE UNION { { <<p>> \o t : t \in SortedIdxSeqs(n - 1, p) } : p \in lo..Len(RowPool) }

\* the sheets: up to MaxRows rows of the pool
Sheets ==
    UNION { { Array([i \in 1..n |-> RowPool[q[i]]]) : q \in SortedIdxSeqs(n, 1) } : n \in 0..MaxRows }

\* the column selections: selection order matters, no column twice (line 234)
Selections == { <<"a">>, <<"a", "b">>, <<"b", "a">> }

----------------------------------------------------------------------------
(* Outcomes of a call: a value, or a thrown Error *)

Throw(msg) == [threw |-> TRUE, error |-> msg]

----------------------------------------------------------------------------
(* simple-statistics, on integer samples, exactly *)

\* an exact coefficient: NaN, or sgn * sqrt(num / den) with num/den reduced
NaNCoef == [nan |-> TRUE, sgn |-> 0, num |-> 0, den |-> 1]

Coef(sgn, num, den) ==
    LET g == Gcd(num, den)
    IN  [nan |-> FALSE, sgn |-> sgn, num |-> num \div g, den |-> den \div g]

One == Coef(1, 1, 1)

Zero == Coef(0, 0, 1)

\* n * x[i] - sum(x): the deviation of x[i] from the mean, times n
Dev(x) == Array([i \in 1..Len(x) |-> Len(x) * x[i] - SumSeq(x)])

Dot(x, y) == SumSeq(Array([i \in 1..Len(x) |-> x[i] * y[i]]))

\* covariance / (deviation * deviation), from the three sums of products; a
\* zero deviation gives 0 / 0 = NaN
coefOf(sxy, sxx, syy) ==
    IF sxx = 0 \/ syy = 0 THEN NaNCoef ELSE Coef(Sgn(sxy), sxy * sxy, sxx * syy)

correlationOf(dx, dy) == coefOf(Dot(dx, dy), Dot(dx, dx), Dot(dy, dy))

\* ss.sampleCorrelation(x, y) = sampleCovariance / sampleStandardDeviation(x)
\* / sampleStandardDeviation(y).  sampleCovariance and sampleVariance throw
\* on fewer than two points; a zero deviation gives NaN, no throw.
sampleCorrelation(x, y) ==
    IF Len(x) # Len(y) THEN Throw("sampleCovariance requires samples with equal lengths")
    ELSE IF Len(x) < 2 THEN Throw("sampleCovariance requires at least two data points in each sample")
    ELSE [threw |-> FALSE, value |-> correlationOf(Dev(x), Dev(y))]

----------------------------------------------------------------------------
(* calculatePearson (src/App.tsx lines 536-551) *)

\* lines 543-547: the value of the try block, or of the catch block
tryCorrelation(r, col1, col2) ==
    IF r.threw THEN (IF col1 = col2 THEN One ELSE Zero) ELSE r.value

\* line 541: data.map(d => Number(d[col]) || 0)
columnValues(d, col) == Array([i \in 1..Len(d) |-> NumberOrZero(d[i][col])])

calculatePearson(d, cols) ==
    [ matrix  |-> [col1 \in Range(cols) |-> [col2 \in Range(cols) |->
                      tryCorrelation(sampleCorrelation(columnValues(d, col1), columnValues(d, col2)),
                                     col1, col2)]],
      columns |-> cols ]

----------------------------------------------------------------------------
(* simple-statistics, on fixed-point samples *)

\* ss.mean(x) = sum(x) / x.length; it throws on an empty sample, which the
\* callers below test before they use it.
mean(x) == RDiv(SumSeq(x), Len(x))

\* Math.pow(x, 2)
Sq(x) == FMul(x, x)

\* sumNthPowerDeviations(x, 2) / n, m the mean of x
meanSqDeviation(x, m) == RDiv(SumSeq(Array([i \in 1..Len(x) |-> Sq(x[i] - m)])), Len(x))

\* ss.variance(x): the population variance
variance(x) == meanSqDeviation(x, mean(x))

\* ss.standardDeviation(x): 0 for one point, else Math.sqrt(variance(x))
standardDeviation(x) == IF Len(x) = 1 THEN 0 ELSE FSqrt(variance(x))

----------------------------------------------------------------------------
(* euclideanDistance (src/App.tsx lines 556-557) *)

euclideanDistance(a, b) ==
    FSqrt(SumSeq(Array([i \in 1..Len(a) |-> Sq(a[i] - b[i])])))

----------------------------------------------------------------------------
(* ml-pca *)

Column(matrix, c) == Array([r \in 1..Len(matrix) |-> matrix[r][c]])

\* the rows minus the column means mu
Centre(matrix, mu) ==
    Array([r \in 1..Len(matrix) |-> Array([c \in 1..Len(mu) |-> matrix[r][c] - mu[c]])])

\* new PCA(matrix).predict(matrix): the rows, centred on the column means,
\* in the basis of the principal axes.  All components are kept, so the
\* change of basis is an isometry; the model keeps the centred rows, which
\* have the distances of the projected ones.
PCApredict(matrix) ==
    Centre(matrix, Array([c \in 1..Len(matrix[1]) |-> mean(Column(matrix, c))]))

----------------------------------------------------------------------------
(* detectOutliers (src/App.tsx lines 562-581); row indices count from 1 *)

\* mutant of the slice: the five smallest distances, the one to itself among them
Slice1to6_FromZero(dists) == SubSeq(dists, 1, Min2(5, Len(dists)))

\* dists.slice(1, 6) of the sorted distances
Slice1to6(dists) == SubSeq(dists, 2, Min2(6, Len(dists)))

\* lines 569-574
outlierScores(projected) ==
    Array([i \in 1..Len(projected) |->
        mean(Slice1to6(SortAsc(Array([j \in 1..Len(projected) |->
            euclideanDistance(projected[i], projected[j])]))))])

\* lines 576-578
outlierThreshold(scores) == mean(scores) + 2 * standardDeviation(scores)

\* line 580
scoresAbove(scores, threshold) ==
    SelectSeq(Iota(Len(scores)), LAMBDA i : scores[i] > threshold)

flagOutliers(scores) == scoresAbove(scores, outlierThreshold(scores))

\* mutant of the detection: no minimum population, and every score above
\* the mean is flagged
detectOutliers_AboveMean(matrix) ==
    IF Len(matrix) < 2 THEN <<>>
    ELSE LET scores == outlierScores(PCApredict(matrix))
         IN  scoresAbove(scores, mean(scores))

detectOutliers(matrix) ==
    IF Len(matrix) < 5 THEN <<>> ELSE flagOutliers(outlierScores(PCApredict(matrix)))

----------------------------------------------------------------------------
(* calculateSilhouette (src/App.tsx lines 586-611) *)

\* lines 592 and 600: the indices of the rows labelled c, idx = skip left out
indicesOf(clusters, c, skip) ==
    SelectSeq(Iota(Len(clusters)), LAMBDA idx : clusters[idx] = c /\ idx # skip)

\* lines 594 and 601: the mean distance from row i to the rows at indices
avgDist(matrix, i, indices) ==
    RDiv(SumSeq(Array([p \in 1..Len(indices) |->
            euclideanDistance(matrix[i], matrix[indices[p]])])), Len(indices))

\* mutant of a(i): the mean over the whole cluster, the row itself counted
aiOf_CountSelf(matrix, i, sameClusterIndices) ==
    IF Len(sameClusterIndices) > 0
    THEN RDiv(avgDist(matrix, i, sameClusterIndices) * Len(sameClusterIndices),
              Len(sameClusterIndices) + 1)
    ELSE 0

\* lines 593-595
aiOf(matrix, i, sameClusterIndices) ==
    IF Len(sameClusterIndices) > 0 THEN avgDist(matrix, i, sameClusterIndices) ELSE 0

Minimum(set) == CHOOSE m \in set : \A x \in set : m <= x

\* lines 597-603: bi stays Infinity when there is no other cluster
biOf(matrix, clusters, i, otherClusters) ==
    IF otherClusters = {} THEN [inf |-> TRUE, v |-> 0]
    ELSE [inf |-> FALSE,
          v   |-> Minimum({avgDist(matrix, i, indicesOf(clusters, otherC, 0)) : otherC \in otherClusters})]

\* lines 605-606: (bi - ai) / Math.max(ai, bi), and 0 where that is NaN
\* (Infinity / Infinity and 0 / 0)
siOf(ai, bi) ==
    IF bi.inf \/ Max2(ai, bi.v) = 0 THEN 0 ELSE FDiv(bi.v - ai, Max2(ai, bi.v))

silhouetteSample(matrix, clusters, i) ==
    [cluster |-> clusters[i],
     value   |-> siOf(aiOf(matrix, i, indicesOf(clusters, clusters[i], i)),
                      biOf(matrix, clusters, i, Range(clusters) \ {clusters[i]}))]

\* lines 609-610
withAverage(samples) ==
    [avg     |-> RDiv(SumSeq(Array([i \in 1..Len(samples) |-> samples[i].value])), Len(samples)),
     samples |-> samples]

calculateSilhouette(matrix, clusters) ==
    IF Len(matrix) <= 1 THEN [avg |-> 0, samples |-> <<>>]
    ELSE withAverage(Array([i \in 1..Len(matrix) |-> silhouetteSample(matrix, clusters, i)]))

----------------------------------------------------------------------------
(* ml-kmeans *)

\* What a run takes from the library besides its arguments: the seed of the
\* random source, and whether k-means++ fails when the rows left to draw a
\* centre from all coincide with the centres drawn (every weight is 0), which
\* depends on the version of the library.
Envs == [seed : 0..MaxSeed, strictSeeding : BOOLEAN]

\* The random source: draw number i of call number c of the run seeded seed.
Lcg(x) == (x * 75 + 74) % 65537

Draw(seed, c, i) == Lcg(Lcg(Lcg(seed * 131 + c * 17 + i)))

\* kmeans(matrix, K, { initialization: 'kmeans++' }): an Error unless K is an
\* integer in 1..n; else one label in 0..K-1 per row.  Which partition comes
\* out depends on the random seeding; the model takes the labels from the
\* random source.  c numbers the calls of a run.
kmeans(matrix, K, env, c) ==
    IF K <= 0 \/ K > Len(matrix)
    THEN Throw("K should be a positive integer smaller than the number of points")
    ELSE IF env.strictSeeding /\ Cardinality(Range(matrix)) < K
    THEN Throw("k-means++: no row left to draw a centre from")
    ELSE [threw |-> FALSE,
          clusters |-> Array([i \in 1..Len(matrix) |-> Draw(env.seed, c, i) % K])]

----------------------------------------------------------------------------
(* getSuggestedK (src/App.tsx lines 616-632) *)

MinusInfinity == -1000000

RECURSIVE SweepFrom(_, _, _, _, _, _)

\* mutant of lines 625-628: `>=` for `>`, a tie goes to the larger k
SweepScored_TieLast(matrix, env, testK, metrics, maxSilhouette, bestK, sil) ==
    IF sil >= maxSilhouette
    THEN SweepFrom(matrix, env, testK + 1,
                   Append(metrics, [k |-> testK, silhouette |-> sil]), sil, testK)
    ELSE SweepFrom(matrix, env, testK + 1,
                   Append(metrics, [k |-> testK, silhouette |-> sil]), maxSilhouette, bestK)

\* lines 624-628 and the rest of the loop
SweepScored(matrix, env, testK, metrics, maxSilhouette, bestK, sil) ==
    IF sil > maxSilhouette
    THEN SweepFrom(matrix, env, testK + 1,
                   Append(metrics, [k |-> testK, silhouette |-> sil]), sil, testK)
    ELSE SweepFrom(matrix, env, testK + 1,
                   Append(metrics, [k |-> testK, silhouette |-> sil]), maxSilhouette, bestK)

\* line 623, unless kmeans threw
SweepFitted(matrix, env, testK, metrics, maxSilhouette, bestK, res) ==
    IF res.threw THEN res
    ELSE SweepScored(matrix, env, testK, metrics, maxSilhouette, bestK,
                     calculateSilhouette(matrix, res.clusters).avg)

\* the for loop from testK on; maxSilhouette = MinusInfinity is -Infinity
SweepFrom(matrix, env, testK, metrics, maxSilhouette, bestK) ==
    IF ~(testK <= Min2(10, Len(matrix) - 1))
    THEN [threw |-> FALSE, bestK |-> bestK, metrics |-> metrics]
    ELSE SweepFitted(matrix, env, testK, metrics, maxSilhouette, bestK,
                     kmeans(matrix, testK, env, testK - 1))

getSuggestedK(matrix, env) == SweepFrom(matrix, env, 2, <<>>, MinusInfinity, 2)

----------------------------------------------------------------------------
(* JavaScript values passed as the third argument of performClustering *)

JSBool(b) == [t |-> "boolean", v |-> IF b THEN 1 ELSE 0]

JSNum(n) == [t |-> "number", v |-> n]

JSNaN == [t |-> "NaN", v |-> 0]

\* the truth value an `if` gives a value: false, 0 and NaN are falsy
Truthy(x) == (x.t = "boolean" /\ x.v = 1) \/ (x.t = "number" /\ x.v # 0)

----------------------------------------------------------------------------
(* performClustering (src/App.tsx lines 637-736); row indices count from 1 *)

IndexOf(s, x) == IF x \in Range(s) THEN CHOOSE i \in 1..Len(s) : s[i] = x ELSE -1

\* mutant of line 646: the columns in the order of the keys, not of the
\* selection
fullMatrixOf_KeyOrder(d, cols) ==
    Array([i \in 1..Len(d) |->
        Array([c \in 1..Len(cols) |-> NumberOrZero(d[i][<<"a", "b">>[c]]) * S])])

\* line 646
fullMatrixOf(d, cols) ==
    Array([i \in 1..Len(d) |-> Array([c \in 1..Len(cols) |-> NumberOrZero(d[i][cols[c]]) * S])])

\* sd || 1 (line 648)
OrOne(sd) == IF sd = 0 THEN S ELSE sd

\* line 649
scale(fullMatrix, fullMeans, fullStds) ==
    Array([r \in 1..Len(fullMatrix) |->
        Array([c \in 1..Len(fullMeans) |-> FDiv(fullMatrix[r][c] - fullMeans[c], fullStds[c])])])

\* step 1 (lines 647-649): the feature matrix, standardized on all rows
standardize(fullMatrix, width) ==
    scale(fullMatrix,
          Array([c \in 1..width |-> mean(Column(fullMatrix, c))]),
          Array([c \in 1..width |-> OrOne(standardDeviation(Column(fullMatrix, c)))]))

\* mutants of step 3: the outliers are dropped, or kept, whatever the mode
mappingIndicesOf_AlwaysFilter(n, outlierIndices, excludeOutliers) ==
    SelectSeq(Iota(n), LAMBDA i : i \notin Range(outlierIndices))

mappingIndicesOf_NeverFilter(n, outlierIndices, excludeOutliers) == Iota(n)

\* step 3 (lines 660-671): the rows that take part in the clustering
mappingIndicesOf(n, outlierIndices, excludeOutliers) ==
    IF Truthy(excludeOutliers)
    THEN SelectSeq(Iota(n), LAMBDA i : i \notin Range(outlierIndices))
    ELSE Iota(n)

\* mutant of the filter: the leading rows, as many as are kept
finalMatrixOf_Leading(fullScaledMatrix, mappingIndices) ==
    Array([j \in 1..Len(mappingIndices) |-> fullScaledMatrix[j]])

\* lines 663 and 668
finalMatrixOf(fullScaledMatrix, mappingIndices) ==
    Array([j \in 1..Len(mappingIndices) |-> fullScaledMatrix[mappingIndices[j]]])

\* lines 688-692: one row of the view of all rows
pcaItem(i, finalIdx, outlierIndices, clusters) ==
    [ cluster   |-> IF finalIdx # -1 THEN clusters[finalIdx] ELSE -1,
      isOutlier |-> i \in Range(outlierIndices),
      index     |-> i ]

\* lines 687-693
pcaDataOf(n, outlierIndices, mappingIndices, clusters) ==
    Array([i \in 1..n |-> pcaItem(i, IndexOf(mappingIndices, i), outlierIndices, clusters)])

\* the locals of a run after step 3
Locals(d, cols, excludeOutliers, fullScaledMatrix, outlierIndices, mappingIndices) ==
    [ n               |-> Len(d),
      selectedCols    |-> cols,
      excludeOutliers |-> excludeOutliers,
      outlierIndices  |-> outlierIndices,
      mappingIndices  |-> mappingIndices,
      finalMatrix     |-> finalMatrixOf(fullScaledMatrix, mappingIndices),
      finalData       |-> finalMatrixOf(d, mappingIndices) ]

\* line 706: the mean of a column over the rows of a cluster, 0 for no rows
rawMean(finalData, members, col) ==
    IF Len(members) > 0
    THEN mean(Array([p \in 1..Len(members) |-> NumberOrZero(finalData[members[p]][col]) * S]))
    ELSE 0

\* mutant of the cluster variance: the squared deviations over m - 1
scaledStat_SampleVariance(colValuesScaled) ==
    IF Len(colValuesScaled) > 0
    THEN [mean     |-> mean(colValuesScaled),
          variance |-> IF Len(colValuesScaled) > 1
                       THEN RDiv(variance(colValuesScaled) * Len(colValuesScaled),
                                 Len(colValuesScaled) - 1)
                       ELSE 0]
    ELSE [mean |-> 0, variance |-> 0]

\* lines 708-715: mean and variance of the standardized values of a cluster
scaledStat(colValuesScaled) ==
    IF Len(colValuesScaled) > 0
    THEN [mean     |-> mean(colValuesScaled),
          variance |-> IF Len(colValuesScaled) > 1 THEN variance(colValuesScaled) ELSE 0]
    ELSE [mean |-> 0, variance |-> 0]

\* line 707
colValuesScaledOf(finalMatrix, members, colIdx) ==
    Array([p \in 1..Len(members) |-> finalMatrix[members[p]][colIdx]])

\* mutant of step 7: only the clusters that have rows get an entry
statsOf_NonEmptyOnly(run, bestK, clusters) ==
    LET ids == SelectSeq(Iota(bestK), LAMBDA i : indicesOf(clusters, i - 1, 0) # <<>>)
    IN  Array([j \in 1..Len(ids) |->
            Array([c \in 1..Len(run.selectedCols) |->
                rawMean(run.finalData, indicesOf(clusters, ids[j] - 1, 0), run.selectedCols[c])])])

\* step 7 (lines 696-717): stats[i][col], as stats[i + 1][c] with col the
\* c-th selected column
statsOf(run, bestK, clusters) ==
    Array([i \in 1..bestK |->
        Array([c \in 1..Len(run.selectedCols) |->
            rawMean(run.finalData, indicesOf(clusters, i - 1, 0), run.selectedCols[c])])])

\* step 7: scaledStats[i][col], indexed as stats
scaledStatsOf(run, bestK, clusters) ==
    Array([i \in 1..bestK |->
        Array([c \in 1..Len(run.selectedCols) |->
            scaledStat(colValuesScaledOf(run.finalMatrix, indicesOf(clusters, i - 1, 0), c))])])

\* lines 721-735: the result, sil being what calculateSilhouette returned
assemble(run, suggested, ans, sil) ==
    [ threw             |-> FALSE,
      k                 |-> suggested.bestK,
      clusters          |-> ans.clusters,
      pcaData           |-> pcaDataOf(run.n, run.outlierIndices, run.mappingIndices, ans.clusters),
      outlierIndices    |-> run.outlierIndices,
      stats             |-> statsOf(run, suggested.bestK, ans.clusters),
      scaledStats       |-> scaledStatsOf(run, suggested.bestK, ans.clusters),
      metrics           |-> suggested.metrics,
      silhouetteSamples |-> sil.samples,
      avgSilhouette     |-> sil.avg,
      selectedCols      |-> run.selectedCols,
      excludeOutliers   |-> run.excludeOutliers ]

\* the silhouette the sweep recorded for bestK, if it recorded one
sweepAverage(suggested, sil) ==
    [avg     |-> IF Len(suggested.metrics) > 0
                 THEN suggested.metrics[suggested.bestK - 1].silhouette
                 ELSE sil.avg,
     samples |-> sil.samples]

\* mutant of the result: the silhouette reported is the one the sweep
\* recorded for bestK, not the one of the final fit
resultOf_SweepSilhouette(run, suggested, ans) ==
    IF ans.threw THEN ans
    ELSE assemble(run, suggested, ans,
                  sweepAverage(suggested, calculateSilhouette(run.finalMatrix, ans.clusters)))

\* lines 679-735, unless the final kmeans threw
resultOf(run, suggested, ans) ==
    IF ans.threw THEN ans
    ELSE assemble(run, suggested, ans, calculateSilhouette(run.finalMatrix, ans.clusters))

\* step 5 (line 678), unless the sweep threw
fit(run, env, suggested) ==
    IF suggested.threw THEN suggested
    ELSE resultOf(run, suggested,
                  kmeans(run.finalMatrix, suggested.bestK, env, Len(suggested.metrics) + 1))

\* step 4 (line 674) and on
sweepAndFit(run, env) == fit(run, env, getSuggestedK(run.finalMatrix, env))

\* steps 3 to 7 (lines 655-736), given the standardized rows and the outliers
clusterOn(d, cols, excludeOutliers, env, fullScaledMatrix, outlierIndices) ==
    sweepAndFit(Locals(d, cols, excludeOutliers, fullScaledMatrix, outlierIndices,
                       mappingIndicesOf(Len(d), outlierIndices, excludeOutliers)), env)

\* mutant of step 2: the outliers are looked for only when they are excluded
detectAndCluster_DetectOnDemand(d, cols, excludeOutliers, env, fullScaledMatrix) ==
    clusterOn(d, cols, excludeOutliers, env, fullScaledMatrix,
              IF Truthy(excludeOutliers) THEN detectOutliers(fullScaledMatrix) ELSE <<>>)

\* step 2 (line 652) and on
detectAndCluster(d, cols, excludeOutliers, env, fullScaledMatrix) ==
    clusterOn(d, cols, excludeOutliers, env, fullScaledMatrix, detectOutliers(fullScaledMatrix))

\* env is what the kmeans calls of the run take from the library.  ss.mean
\* throws on the empty column of an empty row list (line 647).
\* steps 2 and 3 (lines 652-671): the locals of the run before the sweep
filterOn(d, cols, excludeOutliers, fullScaledMatrix, outlierIndices) ==
    Locals(d, cols, excludeOutliers, fullScaledMatrix, outlierIndices,
           mappingIndicesOf(Len(d), outlierIndices, excludeOutliers))

detectAndFilter(d, cols, excludeOutliers, fullScaledMatrix) ==
    filterOn(d, cols, excludeOutliers, fullScaledMatrix, detectOutliers(fullScaledMatrix))

performClustering(d, cols, excludeOutliers, env) ==
    IF Len(d) = 0 /\ Len(cols) > 0
    THEN Throw("mean requires at least one data point")
    ELSE detectAndCluster(d, cols, excludeOutliers, env,
                          standardize(fullMatrixOf(d, cols), Len(cols)))

----------------------------------------------------------------------------
(* Direct calls of the service functions on drawn inputs *)

NoCall == [fn |-> "none"]

NoOp == [op |-> "none"]

Null == [threw |-> FALSE, isNull |-> TRUE]

InitCore ==
    /\ data \in Sheets
    /\ selectedCols \in Selections
    /\ showSheetSelector = FALSE
    /\ rawWorkbook = 0
    /\ clusterResult = Null
    /\ showModal = "none"
    /\ showModeDropdown = FALSE
    /\ reading = <<>>
    /\ lastOp = NoOp
    /\ ret = NoCall

AppUnchanged ==
    UNCHANGED <<data, selectedCols, showSheetSelector, rawWorkbook, clusterResult,
                showModal, showModeDropdown, reading, lastOp>>

CallPearson ==
    /\ ret = NoCall
    /\ ret' = [fn |-> "calculatePearson", out |-> calculatePearson(data, selectedCols)]
    /\ AppUnchanged

\* a run of performClustering on the drawn rows and columns
CallCluster ==
    /\ ret = NoCall
    /\ \E mode \in BOOLEAN, env \in Envs :
          ret' = [fn |-> "performClustering", mode |-> mode, env |-> env, prev |-> NoCall,
                  out |-> performClustering(data, selectedCols, JSBool(mode), env)]
    /\ AppUnchanged

\* a second run on the same rows and columns, in the other mode
CallClusterAgain ==
    /\ ret.fn = "performClustering"
    /\ ret.prev = NoCall
    /\ ~ret.out.threw
    /\ \E env \in Envs :
          ret' = [fn |-> "performClustering", mode |-> ~ret.mode, env |-> env, prev |-> ret,
                  out |-> performClustering(data, selectedCols, JSBool(~ret.mode), env)]
    /\ AppUnchanged

\* getSuggestedK on the standardized rows (on the empty matrix for no rows)
CallSuggestedK ==
    /\ ret = NoCall
    /\ \E env \in Envs :
          ret' = [fn |-> "getSuggestedK", env |-> env,
                  out |-> getSuggestedK(IF Len(data) = 0 THEN <<>>
                                        ELSE standardize(fullMatrixOf(data, selectedCols),
                                                         Len(selectedCols)), env)]
    /\ AppUnchanged

\* line 646 alone: the feature matrix of the drawn rows and columns
BuildFullMatrix ==
    /\ ret = NoCall
    /\ ret' = [fn |-> "fullMatrix", out |-> fullMatrixOf(data, selectedCols)]
    /\ AppUnchanged

\* performClustering up to line 671, for rows that step 1 accepts
RunToFilter ==
    /\ ret = NoCall
    /\ Len(data) > 0
    /\ \E mode \in BOOLEAN :
          ret' = [fn |-> "filter", mode |-> mode,
                  out |-> detectAndFilter(data, selectedCols, JSBool(mode),
                              standardize(fullMatrixOf(data, selectedCols), Len(selectedCols)))]
    /\ AppUnchanged

NextCore ==
    \/ RunToFilter
    \/ CallPearson
    \/ CallCluster
    \/ CallClusterAgain
    \/ CallSuggestedK
    \/ BuildFullMatrix

SpecCore == InitCore /\ [][NextCore]_vars

----------------------------------------------------------------------------
(* The App component: its state and its event handlers.  fileName, sheets, *)
(* activeSheet, factoryCol and pearsonResult are written by the handlers   *)
(* below and read only by the rendering and the Pearson export; they are   *)
(* not part of the state here.                                             *)

\* a sheet of six rows, the third far from the others
SheetA == <<RowPool[1], RowPool[1], RowPool[2], RowPool[1], RowPool[3], RowPool[1]>>

SheetB == <<RowPool[1], RowPool[3], RowPool[2]>>

\* the files the user has at hand, each the sequence of its sheets
Workbooks == << <<SheetA>>, <<SheetB, SheetA>> >>

\* what prompt() returns (line 252): null on cancel, else the text typed
KInputs == { [cancelled |-> TRUE,  text |-> ""],
             [cancelled |-> FALSE, text |-> ""],
             [cancelled |-> FALSE, text |-> "0"],
             [cancelled |-> FALSE, text |-> "4"] }

\* kInput || "3" (line 253): null and the empty string are falsy
OrDefault(kInput) == IF kInput.cancelled \/ kInput.text = "" THEN "3" ELSE kInput.text

\* parseInt on the texts above
parseInt(text) ==
    CASE text = "0" -> JSNum(0)
      [] text = "3" -> JSNum(3)
      [] text = "4" -> JSNum(4)
      [] OTHER      -> JSNaN

\* the third arguments the handlers pass: a parsed k or the k of a result
ThirdArgs == {JSNaN} \cup {JSNum(k) : k \in 0..10}

\* what selectedCols can hold: the toggles of line 234 on two columns
ColumnOrders == {<<>>} \cup Selections \cup {<<"b">>}

\* performClustering on what the handlers can pass it, evaluated once
Clustered ==
    [d \in Range(Workbooks[1]) \cup Range(Workbooks[2]),
     cols \in ColumnOrders,
     third \in ThirdArgs,
     env \in Envs |-> performClustering(d, cols, third, env)] @@ <<>>

Init ==
    /\ data = <<>>
    /\ selectedCols = <<>>
    /\ showSheetSelector = FALSE
    /\ rawWorkbook = 0
    /\ clusterResult = Null
    /\ showModal = "none"
    /\ showModeDropdown = FALSE
    /\ reading = <<>>
    /\ lastOp = NoOp
    /\ ret = NoCall

\* lines 98-110, for sheets without a factory-name column
loadSheet(wb, sheetName) ==
    /\ data' = Workbooks[wb][sheetName]
    /\ showSheetSelector' = FALSE
    /\ selectedCols' = <<>>

\* lines 82-86 and 95: a file is chosen and a FileReader starts on it.  The
\* file input (line 224) lies under the report (line 280) and under the
\* sheet selector (line 490) while either is shown, and takes no focus.
handleFileUpload ==
    /\ showModal = "none"
    /\ ~showSheetSelector
    /\ Len(reading) < MaxReaders
    /\ \E file \in 1..Len(Workbooks) : reading' = Append(reading, file)
    /\ lastOp' = [op |-> "handleFileUpload"]
    /\ UNCHANGED <<data, selectedCols, showSheetSelector, rawWorkbook, clusterResult,
                   showModal, showModeDropdown, ret>>

\* lines 87-94: a FileReader has read its file
ReaderOnload ==
    /\ \E i \in 1..Len(reading) :
          LET wb == reading[i]
          IN  /\ reading' = SubSeq(reading, 1, i - 1) \o SubSeq(reading, i + 1, Len(reading))
              /\ rawWorkbook' = wb
              /\ IF Len(Workbooks[wb]) > 1
                 THEN showSheetSelector' = TRUE /\ UNCHANGED <<data, selectedCols>>
                 ELSE loadSheet(wb, 1)
    /\ lastOp' = [op |-> "onload"]
    /\ UNCHANGED <<clusterResult, showModal, showModeDropdown, ret>>

\* line 497: a sheet of the workbook is picked in the selector
SheetClick ==
    /\ showSheetSelector
    /\ \E s \in 1..Len(Workbooks[rawWorkbook]) : loadSheet(rawWorkbook, s)
    /\ lastOp' = [op |-> "loadSheet"]
    /\ UNCHANGED <<rawWorkbook, clusterResult, showModal, showModeDropdown, reading, ret>>

\* line 234, rendered when there are rows (line 229)
ToggleCol ==
    /\ Len(data) > 0
    /\ \E col \in DOMAIN data[1] :
          selectedCols' = IF col \in Range(selectedCols)
                          THEN SelectSeq(selectedCols, LAMBDA c : c # col)
                          ELSE Append(selectedCols, col)
    /\ lastOp' = [op |-> "toggleCol"]
    /\ UNCHANGED <<data, showSheetSelector, rawWorkbook, clusterResult, showModal,
                   showModeDropdown, reading, ret>>

\* line 247; calculatePearson does not throw
PearsonClick ==
    /\ Len(selectedCols) >= 2
    /\ showModal' = "pearson"
    /\ lastOp' = [op |-> "pearson"]
    /\ UNCHANGED <<data, selectedCols, showSheetSelector, rawWorkbook, clusterResult,
                   showModeDropdown, reading, ret>>

\* lines 251-256.  performClustering has three parameters (line 637): the
\* third argument, k, is its excludeOutliers and the fourth is dropped.  An
\* exception leaves the handler before either setter is called.
ClusterClick ==
    /\ Len(selectedCols) >= 2
    /\ \E kInput \in KInputs, env \in Envs :
          LET k   == parseInt(OrDefault(kInput))
              out == Clustered[data, selectedCols, k, env]
          IN  /\ lastOp' = [op |-> "cluster", k |-> k, threw |-> out.threw]
              /\ IF out.threw
                 THEN UNCHANGED <<clusterResult, showModal>>
                 ELSE clusterResult' = out /\ showModal' = "cluster"
    /\ UNCHANGED <<data, selectedCols, showSheetSelector, rawWorkbook, showModeDropdown,
                   reading, ret>>

\* lines 171-176, from the buttons of lines 301 and 305; the same call as in
\* ClusterClick, with the k of the result shown
switchClusterMode(mode) ==
    /\ showModal = "cluster"
    /\ showModeDropdown
    /\ clusterResult # Null
    /\ \E env \in Envs :
          LET k   == clusterResult.k
              out == Clustered[data, selectedCols, JSNum(k), env]
          IN  /\ lastOp' = [op |-> "switchClusterMode", mode |-> mode, k |-> k,
                            threw |-> out.threw]
              /\ IF out.threw
                 THEN UNCHANGED <<clusterResult, showModeDropdown>>
                 ELSE clusterResult' = out /\ showModeDropdown' = FALSE
    /\ UNCHANGED <<data, selectedCols, showSheetSelector, rawWorkbook, showModal,
                   reading, ret>>

\* lines 141-169, from the button of line 315: the statistics file is
\* written, then data.map reads clusterResult.pcaData[i] for every row i of
\* data; pcaItem.cluster is a TypeError where pcaData has no entry i.
saveClusterFiles ==
    /\ showModal = "cluster"
    /\ clusterResult # Null
    /\ lastOp' = [op    |-> "saveClusterFiles",
                  rows  |-> Min2(Len(data), Len(clusterResult.pcaData)),
                  threw |-> Len(data) > Len(clusterResult.pcaData)]
    /\ UNCHANGED <<data, selectedCols, showSheetSelector, rawWorkbook, clusterResult,
                   showModal, showModeDropdown, reading, ret>>

\* line 291
ToggleModeDropdown ==
    /\ showModal = "cluster"
    /\ clusterResult # Null
    /\ showModeDropdown' = ~showModeDropdown
    /\ lastOp' = [op |-> "toggleModeDropdown"]
    /\ UNCHANGED <<data, selectedCols, showSheetSelector, rawWorkbook, clusterResult,
                   showModal, reading, ret>>

\* line 318
CloseModal ==
    /\ showModal # "none"
    /\ showModal' = "none"
    /\ lastOp' = [op |-> "closeModal"]
    /\ UNCHANGED <<data, selectedCols, showSheetSelector, rawWorkbook, clusterResult,
                   showModeDropdown, reading, ret>>

Next ==
    \/ handleFileUpload
    \/ ReaderOnload
    \/ SheetClick
    \/ ToggleCol
    \/ PearsonClick
    \/ ClusterClick
    \/ switchClusterMode(TRUE)
    \/ switchClusterMode(FALSE)
    \/ saveClusterFiles
    \/ ToggleModeDropdown
    \/ CloseModal

Spec == Init /\ [][Next]_vars

\* The same App driven by the pointer alone.  The report (line 280) and the
\* sheet selector (line 490) are fixed layers over the whole window, the
\* report (z-60) above the selector (z-50) and both above the sidebar: what
\* lies under a shown layer takes no click.
SidebarFree == showModal = "none" /\ ~showSheetSelector

PointerSheetClick == showModal = "none" /\ SheetClick

PointerToggleCol == SidebarFree /\ ToggleCol

PointerPearsonClick == SidebarFree /\ PearsonClick

PointerClusterClick == SidebarFree /\ ClusterClick

NextPointer ==
    \/ handleFileUpload
    \/ ReaderOnload
    \/ PointerSheetClick
    \/ PointerToggleCol
    \/ PointerPearsonClick
    \/ PointerClusterClick
    \/ switchClusterMode(TRUE)
    \/ switchClusterMode(FALSE)
    \/ saveClusterFiles
    \/ ToggleModeDropdown
    \/ CloseModal

SpecPointer == Init /\ [][NextPointer]_vars

----------------------------------------------------------------------------
(* detectOutliers alone, on populations large enough for a row to have more
   than five other rows *)

MaxDetectRows == 7

DetectSheets ==
    UNION { { Array([i \in 1..n |-> RowPool[q[i]]]) : q \in [1..n -> 1..Len(RowPool)] } :
            n \in 0..MaxDetectRows }

InitDetect ==
    /\ data \in DetectSheets
    /\ selectedCols \in Selections
    /\ showSheetSelector = FALSE
    /\ rawWorkbook = 0
    /\ clusterResult = Null
    /\ showModal = "none"
    /\ showModeDropdown = FALSE
    /\ reading = <<>>
    /\ lastOp = NoOp
    /\ ret = NoCall

\* line 652: detectOutliers on the standardized rows ([] for no rows)
CallDetectOutliers ==
    /\ ret = NoCall
    /\ ret' = [fn |-> "detectOutliers",
               out |-> detectOutliers(IF Len(data) = 0 THEN <<>>
                                      ELSE standardize(fullMatrixOf(data, selectedCols),
                                                       Len(selectedCols)))]
    /\ AppUnchanged

NextDetect == CallDetectOutliers

SpecDetect == InitDetect /\ [][NextDetect]_vars

----------------------------------------------------------------------------
(* Step 1 of performClustering in binary floating point. A JavaScript number
   is a double: a signed mantissa of 53 bits and a power of two, every
   operation rounded to the nearest such number, ties to the even mantissa.
   Here the mantissa has FloatBits bits; the number is m * 2^e. *)

FloatBits == 4
MaxColumn == 3

Lo == 2^(FloatBits - 1)
Hi == 2^FloatBits

flZero == [m |-> 0, e |-> 0]

RECURSIVE flNorm(_, _, _, _)
\* sgn * (num / den) * 2^e, rounded to FloatBits bits
flNorm(sgn, num, den, e) ==
    IF num < den * Lo THEN flNorm(sgn, 2 * num, den, e - 1)
    ELSE IF num >= den * Hi THEN flNorm(sgn, num, 2 * den, e + 1)
    ELSE LET q  == num \div den
             r2 == 2 * (num % den)
             up == r2 > den \/ (r2 = den /\ q % 2 = 1)
             m  == IF up THEN q + 1 ELSE q
         IN  IF m = Hi THEN [m |-> sgn * Lo, e |-> e + 1] ELSE [m |-> sgn * m, e |-> e]

flRound(M, den, e) == IF M = 0 THEN flZero ELSE flNorm(Sgn(M), Abs(M), den, e)

flOfInt(n) == flRound(n, 1, 0)

flOne == flOfInt(1)

\* x + y
flAdd(x, y) ==
    LET e == Min2(x.e, y.e)
    IN  flRound(x.m * 2^(x.e - e) + y.m * 2^(y.e - e), 1, e)

\* x - y
flSub(x, y) == flAdd(x, [m |-> 0 - y.m, e |-> y.e])

\* x * y
flMul(x, y) == flRound(x.m * y.m, 1, x.e + y.e)

\* x / y for y other than 0
flDiv(x, y) == flRound(x.m * Sgn(y.m), Abs(y.m), x.e - y.e)

RECURSIVE flSqrtOf(_, _)
\* Math.sqrt of N * 4^h, N > 0: the floor of the root and a sticky half
flSqrtOf(N, h) ==
    IF N < Hi * Hi THEN flSqrtOf(4 * N, h - 1)
    ELSE LET r == ISqrt(N)
         IN  flNorm(1, 2 * r + (IF r * r = N THEN 0 ELSE 1), 2, h)

\* Math.sqrt(x) for x >= 0
flSqrt(x) ==
    IF x.m = 0 THEN flZero
    ELSE IF x.e % 2 = 0 THEN flSqrtOf(x.m, x.e \div 2)
    ELSE flSqrtOf(2 * x.m, (x.e - 1) \div 2)

RECURSIVE flSum(_)
\* the sum of a sample, added from the left
flSum(x) == IF x = <<>> THEN flZero ELSE flAdd(flSum(SubSeq(x, 1, Len(x) - 1)), x[Len(x)])

\* ss.mean
flMean(x) == flDiv(flSum(x), flOfInt(Len(x)))

flSqDeviations(x, m) == Array([i \in 1..Len(x) |-> flMul(flSub(x[i], m), flSub(x[i], m))])

\* ss.variance
flVariance(x) == flDiv(flSum(flSqDeviations(x, flMean(x))), flOfInt(Len(x)))

\* ss.standardDeviation
flStandardDeviation(x) == IF Len(x) = 1 THEN flZero ELSE flSqrt(flVariance(x))

\* line 648: std || 1
flOrOne(sd) == IF sd.m = 0 THEN flOne ELSE sd

\* line 649 on one column
flScale(col, fullMean, fullStd) ==
    Array([r \in 1..Len(col) |-> flDiv(flSub(col[r], fullMean), fullStd)])

\* lines 647-649 on one column
flStandardize(col) == flScale(col, flMean(col), flOrOne(flStandardDeviation(col)))

\* the numbers of a column: 0 and the numbers from 1 to 2 - 2^(1 - FloatBits)
FloatPool == {flZero} \cup {[m |-> m, e |-> 1 - FloatBits] : m \in Lo..(Hi - 1)}

FloatSheets ==
    UNION {[1..n -> [a : [kind : {"float"}, v : FloatPool]]] : n \in 1..MaxColumn}

InitScale ==
    /\ data \in FloatSheets
    /\ selectedCols = <<"a">>
    /\ showSheetSelector = FALSE
    /\ rawWorkbook = 0
    /\ clusterResult = Null
    /\ showModal = "none"
    /\ showModeDropdown = FALSE
    /\ reading = <<>>
    /\ lastOp = NoOp
    /\ ret = NoCall

\* step 1 on the one selected column of the drawn rows
StandardizeColumn ==
    /\ ret = NoCall
    /\ ret' = [fn |-> "standardize",
               out |-> flStandardize(Array([i \in 1..Len(data) |-> data[i].a.v]))]
    /\ AppUnchanged

NextScale == StandardizeColumn

SpecScale == InitScale /\ [][NextScale]_vars

----------------------------------------------------------------------------
(* The arrays of calculatePearson and performClustering: which array each
   statement creates, names a second time, or changes in place.  The rows
   and the column list of the caller are the variables data and
   selectedCols; the arrays the call creates are in heap, under the name of
   the variable that first holds them; env tells which array a variable
   names.  Loops are run once: each pass does the same to the arrays. *)

Locals_ == {"matrix", "val1", "val2", "fullMatrix", "fullMeans", "fullScaledMatrix",
            "projected", "dists", "scores", "outlierIndices", "mappingIndices",
            "finalMatrix", "finalData", "metrics", "ans", "fullProjected", "pcaData",
            "clusterPointsRaw", "stats", "result"}

Names == Locals_ \cup {"data", "selectedCols"}

Stmt(line, op, dst, src, when) ==
    [line |-> line, op |-> op, dst |-> dst, src |-> src, when |-> when]

\* lines 536-551
pearsonProgram ==
    << Stmt(537, "new",   "matrix", "matrix",       "always"),
       Stmt(540, "map",   "val1",   "data",         "always"),
       Stmt(542, "map",   "val2",   "data",         "always"),
       Stmt(544, "read",  "val1",   "val2",         "always"),
       Stmt(544, "write", "matrix", "matrix",       "always"),
       Stmt(550, "alias", "result", "selectedCols", "always") >>

\* lines 637-736, with detectOutliers (562-581) and getSuggestedK (616-632)
clusterProgram ==
    << Stmt(646, "map",    "fullMatrix",       "data",             "always"),
       Stmt(647, "map",    "fullMeans",        "selectedCols",     "always"),
       Stmt(649, "map",    "fullScaledMatrix", "fullMatrix",       "always"),
       Stmt(566, "map",    "projected",        "fullScaledMatrix", "always"),
       Stmt(569, "map",    "scores",           "projected",        "always"),
       Stmt(570, "map",    "dists",            "projected",        "always"),
       Stmt(571, "sort",   "dists",            "dists",            "always"),
       Stmt(573, "read",   "dists",            "dists",            "always"),
       Stmt(580, "filter", "outlierIndices",   "scores",           "always"),
       Stmt(662, "filter", "mappingIndices",   "data",             "exclude"),
       Stmt(663, "filter", "finalMatrix",      "fullScaledMatrix", "exclude"),
       Stmt(664, "filter", "finalData",        "data",             "exclude"),
       Stmt(667, "map",    "mappingIndices",   "data",             "keep"),
       Stmt(668, "alias",  "finalMatrix",      "fullScaledMatrix", "keep"),
       Stmt(669, "alias",  "finalData",        "data",             "keep"),
       Stmt(617, "new",    "metrics",          "metrics",          "always"),
       Stmt(622, "read",   "finalMatrix",      "finalMatrix",      "always"),
       Stmt(624, "write",  "metrics",          "metrics",          "always"),
       Stmt(678, "map",    "ans",              "finalMatrix",      "always"),
       Stmt(684, "map",    "fullProjected",    "fullScaledMatrix", "always"),
       Stmt(687, "map",    "pcaData",          "fullProjected",    "always"),
       Stmt(696, "new",    "stats",            "stats",            "always"),
       Stmt(702, "filter", "clusterPointsRaw", "finalData",        "always"),
       Stmt(706, "write",  "stats",            "stats",            "always"),
       Stmt(734, "alias",  "result",           "selectedCols",     "always") >>

programOf(call) == IF call = "calculatePearson" THEN pearsonProgram ELSE clusterProgram

\* the array a variable names, as the call finds it
contentOf(name, heap, d, cols) ==
    CASE name = "data"         -> d
      [] name = "selectedCols" -> cols
      [] OTHER                 -> heap[name]

\* a change in place of the array a variable names: of the caller's rows or
\* columns if that is the array
storeAt(name, v, heap, env, d, cols) ==
    [heap |-> IF name \in Locals_ THEN [heap EXCEPT ![name] = v] ELSE heap,
     env  |-> env,
     data |-> IF name = "data" THEN v ELSE d,
     selectedCols |-> IF name = "selectedCols" THEN v ELSE cols]

\* a new array for variable dst
bindNew(dst, v, heap, env, d, cols) ==
    [heap |-> [heap EXCEPT ![dst] = v],
     env  |-> [env EXCEPT ![dst] = dst],
     data |-> d,
     selectedCols |-> cols]

\* what map computes of the elements: numbers of rows (line 646), positions
\* of columns (line 647), numbers of numbers
mapped(src, content, cols) ==
    CASE src = "data"         -> Array([i \in 1..Len(content) |->
                                     NumberOrZero(content[i][cols[1]])])
      [] src = "selectedCols" -> Iota(Len(content))
      [] OTHER                -> Array([i \in 1..Len(content) |-> content[i]])

\* what filter and slice keep: here all but the last element
keptOf(content) == SubSeq(content, 1, Len(content) - 1)

\* mutant of map: the elements are converted where they are, a row's
\* cell to its number
execMap_InPlace(st, heap, env, d, cols) ==
    LET content == contentOf(env[st.src], heap, d, cols)
        inPlace == IF env[st.src] = "data"
                   THEN Array([i \in 1..Len(content) |->
                            [content[i] EXCEPT ![cols[1]] = NumCell(NumberOrZero(@))]])
                   ELSE mapped(env[st.src], content, cols)
    IN  storeAt(env[st.src], inPlace, heap, [env EXCEPT ![st.dst] = env[st.src]], d, cols)

\* Array.prototype.map: a new array, the source as it was
execMap(st, heap, env, d, cols) ==
    bindNew(st.dst, mapped(env[st.src], contentOf(env[st.src], heap, d, cols), cols),
            heap, env, d, cols)

\* Array.prototype.filter and slice: a new array
execFilter(st, heap, env, d, cols) ==
    bindNew(st.dst, keptOf(contentOf(env[st.src], heap, d, cols)), heap, env, d, cols)

\* Array.prototype.sort, on numbers: in place
execSort(st, heap, env, d, cols) ==
    storeAt(env[st.dst], SortAsc(contentOf(env[st.dst], heap, d, cols)), heap, env, d, cols)

\* an assignment to an element or a push: in place
execWrite(st, heap, env, d, cols) ==
    storeAt(env[st.dst], Append(contentOf(env[st.dst], heap, d, cols), st.line),
            heap, env, d, cols)

\* the statement st, in the given mode
exec(st, mode, heap, env, d, cols) ==
    IF (st.when = "exclude" /\ ~mode) \/ (st.when = "keep" /\ mode)
    THEN [heap |-> heap, env |-> env, data |-> d, selectedCols |-> cols]
    ELSE CASE st.op = "new"    -> bindNew(st.dst, <<>>, heap, env, d, cols)
           [] st.op = "map"    -> execMap(st, heap, env, d, cols)
           [] st.op = "filter" -> execFilter(st, heap, env, d, cols)
           [] st.op = "sort"   -> execSort(st, heap, env, d, cols)
           [] st.op = "write"  -> execWrite(st, heap, env, d, cols)
           [] st.op = "alias"  -> [heap |-> heap, env |-> [env EXCEPT ![st.dst] = env[st.src]],
                                   data |-> d, selectedCols |-> cols]
           [] OTHER            -> [heap |-> heap, env |-> env, data |-> d,
                                   selectedCols |-> cols]

MaxFrameRows == 3

InitFrame ==
    /\ data \in {d \in Sheets : Len(d) <= MaxFrameRows}
    /\ selectedCols \in Selections
    /\ showSheetSelector = FALSE
    /\ rawWorkbook = 0
    /\ clusterResult = Null
    /\ showModal = "none"
    /\ showModeDropdown = FALSE
    /\ reading = <<>>
    /\ lastOp = NoOp
    /\ ret = NoCall

\* a call is entered with the caller's rows and columns as its arguments
Enter ==
    /\ ret = NoCall
    /\ \E call \in {"calculatePearson", "performClustering"}, mode \in BOOLEAN :
          ret' = [fn |-> "frame", call |-> call, mode |-> mode, pc |-> 1,
                  heap |-> [n \in Locals_ |-> <<>>],
                  env  |-> [n \in Names |-> IF n \in Locals_ THEN "none" ELSE n],
                  before |-> [data |-> data, selectedCols |-> selectedCols]]
    /\ AppUnchanged

\* the next statement of the call
StepFrame ==
    /\ ret.fn = "frame"
    /\ ret.pc <= Len(programOf(ret.call))
    /\ LET after == exec(programOf(ret.call)[ret.pc], ret.mode, ret.heap, ret.env,
                         data, selectedCols)
       IN  /\ ret' = [ret EXCEPT !.pc = ret.pc + 1, !.heap = after.heap, !.env = after.env]
           /\ data' = after.data
           /\ selectedCols' = after.selectedCols
    /\ UNCHANGED <<showSheetSelector, rawWorkbook, clusterResult, showModal,
                   showModeDropdown, reading, lastOp>>

NextFrame ==
    \/ Enter
    \/ StepFrame

SpecFrame == InitFrame /\ [][NextFrame]_vars

----------------------------------------------------------------------------
(* Properties of the service functions, checked under SpecCore *)

IsRun == ret.fn = "performClustering" /\ ~ret.out.threw

IsPearson == ret.fn = "calculatePearson"

IsSweep == ret.fn = "getSuggestedK" /\ ~ret.out.threw

\* the rows standardized on the whole population
FullScaled == standardize(fullMatrixOf(data, selectedCols), Len(selectedCols))

\* C1: a completed run that keeps the outliers gives every row of pcaData a
\* label in 0..k-1, none -1, and the rows counted per label add up to the
\* number of input rows.
C1_KeptRowsAllLabelled ==
    (IsRun /\ ~ret.mode) =>
        LET r == ret.out
            count(c) == Cardinality({i \in 1..Len(r.pcaData) : r.pcaData[i].cluster = c})
        IN  /\ Len(r.pcaData) = Len(data)
            /\ \A i \in 1..Len(data) : r.pcaData[i].cluster \in 0..(r.k - 1)
            /\ SumSeq(Array([c \in 1..r.k |-> count(c - 1)])) = Len(data)

\* a run that keeps the outliers, on rows among which there are outliers
C1_Witness == IsRun /\ ~ret.mode /\ ret.out.outlierIndices # <<>>

\* C2: a completed run that excludes the outliers marks exactly the rows of
\* outlierIndices with cluster -1 and isOutlier, and gives every other row a
\* label in 0..k-1 and isOutlier false.
C2_ExcludedRowsMarked ==
    (IsRun /\ ret.mode) =>
        LET r == ret.out
        IN  \A i \in 1..Len(data) :
                IF i \in Range(r.outlierIndices)
                THEN r.pcaData[i].cluster = -1 /\ r.pcaData[i].isOutlier
                ELSE r.pcaData[i].cluster \in 0..(r.k - 1) /\ ~r.pcaData[i].isOutlier

\* a run that excludes an outlier which is not the last row
C2_Witness ==
    /\ IsRun /\ ret.mode
    /\ \E i \in Range(ret.out.outlierIndices) : i < Len(data)

\* C3: getSuggestedK returns a bestK in 2..min(10, n-1) for every matrix of
\* n rows, also when that range is empty.
C3_BestKInCandidateRange ==
    IsSweep => ret.out.bestK \in 2..Min2(10, Len(data) - 1)

\* C4: getSuggestedK records one metric per candidate k, in ascending order
\* from 2 to min(10, n-1); when there are candidates, bestK is one of them,
\* no candidate has a larger silhouette and no smaller candidate has an
\* equal one.
C4_BestKIsFirstMaximum ==
    IsSweep =>
        LET m    == ret.out.metrics
            best == ret.out.bestK
        IN  /\ Len(m) = Max2(0, Min2(10, Len(data) - 1) - 1)
            /\ \A j \in 1..Len(m) : m[j].k = j + 1
            /\ Len(m) > 0 =>
                  /\ best \in {m[j].k : j \in 1..Len(m)}
                  /\ \A j \in 1..Len(m) : m[j].silhouette <= m[best - 1].silhouette
                  /\ \A j \in 1..Len(m) :
                        m[j].k < best => m[j].silhouette < m[best - 1].silhouette

\* a sweep whose best candidate is not the first and is tied by a later one
C4_Witness ==
    /\ IsSweep
    /\ ret.out.bestK > 2
    /\ \E j \in 1..Len(ret.out.metrics) :
          /\ ret.out.metrics[j].k > ret.out.bestK
          /\ ret.out.metrics[j].silhouette = ret.out.metrics[ret.out.bestK - 1].silhouette

\* JavaScript's === on coefficients: NaN equals nothing
StrictEq(x, y) == ~x.nan /\ ~y.nan /\ x = y

\* C5: for at least one row, the matrix of calculatePearson is symmetric
\* and has 1 on the diagonal, constant columns included.
C5_SymmetricUnitDiagonal ==
    (IsPearson /\ Len(data) >= 1) =>
        LET m == ret.out.matrix
        IN  \A a \in Range(selectedCols), b \in Range(selectedCols) :
                /\ StrictEq(m[a][b], m[b][a])
                /\ StrictEq(m[a][a], One)

\* the values of a column are all equal
ZeroVariance(col) ==
    \A i \in 1..Len(data), j \in 1..Len(data) :
        NumberOrZero(data[i][col]) = NumberOrZero(data[j][col])

\* C6: where Pearson's r is undefined (a zero-variance column, fewer than two
\* rows) calculatePearson stores 1 for a column with itself and 0 otherwise,
\* and no entry of the matrix is NaN.
C6_UndefinedFallsBack ==
    IsPearson =>
        LET m == ret.out.matrix
        IN  \A a \in Range(selectedCols), b \in Range(selectedCols) :
                /\ ~m[a][b].nan
                /\ (Len(data) < 2 \/ ZeroVariance(a) \/ ZeroVariance(b))
                      => m[a][b] = IF a = b THEN One ELSE Zero

\* C7: performClustering on fewer than 3 rows is rejected with an error and
\* returns no result.
C7_SmallPopulationRejected ==
    (ret.fn = "performClustering" /\ Len(data) < 3) => ret.out.threw

\* the standardized rows that took part in the run: those pcaData labels
ClusteredMatrix ==
    LET full == standardize(fullMatrixOf(data, selectedCols), Len(selectedCols))
        kept == SelectSeq(Iota(Len(data)), LAMBDA i : ret.out.pcaData[i].cluster # -1)
    IN  Array([j \in 1..Len(kept) |-> full[kept[j]]])

\* C8: avgSilhouette of the result is the average calculateSilhouette gives
\* for the returned clusters on the matrix that was clustered.
C8_SilhouetteOfReturnedFit ==
    IsRun =>
        /\ Len(ClusteredMatrix) = Len(ret.out.clusters)
        /\ ret.out.avgSilhouette = calculateSilhouette(ClusteredMatrix, ret.out.clusters).avg

\* a run without its outliers whose final fit scores otherwise than the
\* sweep's fit at the same k
C8_Witness ==
    /\ IsRun /\ ret.mode
    /\ ret.out.outlierIndices # <<>>
    /\ Len(ret.out.metrics) > 0
    /\ ret.out.metrics[ret.out.k - 1].silhouette # ret.out.avgSilhouette

\* C9: two runs on the same rows and columns that differ in the mode return
\* the same outlierIndices.
C9_OutliersIndependentOfMode ==
    (IsRun /\ ret.prev # NoCall) =>
        ret.out.outlierIndices = ret.prev.out.outlierIndices

\* a second run, in the other mode, on rows among which there are outliers
C9_Witness ==
    /\ IsRun
    /\ ret.prev # NoCall
    /\ ret.prev.mode # ret.mode
    /\ ret.out.outlierIndices # <<>>

\* C12: on fewer than 5 rows no outlier is reported, and a completed run
\* gives no row the label -1 or isOutlier, in either mode.
C12_NoOutliersBelowFive ==
    (IsRun /\ Len(data) < 5) =>
        /\ ret.out.outlierIndices = <<>>
        /\ \A i \in 1..Len(data) :
              ret.out.pcaData[i].cluster # -1 /\ ~ret.out.pcaData[i].isOutlier

\* a run that excludes outliers, on four rows one of which is far from the rest
C12_Witness ==
    /\ IsRun /\ ret.mode
    /\ Len(data) = 4
    /\ Cardinality({i \in 1..4 : data[i] = RowPool[2]}) = 1

\* the number a cell stands for in the matrix, by the kind of the cell
CellNumber(cell) == IF cell.kind \in {"number", "numstr"} THEN cell.v * S ELSE 0

\* C13: the feature matrix has one vector per row, with one entry per
\* selected column in selection order; an absent, null or non-numeric cell
\* gives 0; no rows give the empty matrix.
C13_FeatureMatrixShape ==
    ret.fn = "fullMatrix" =>
        /\ Len(ret.out) = Len(data)
        /\ \A i \in 1..Len(data) :
              /\ Len(ret.out[i]) = Len(selectedCols)
              /\ \A c \in 1..Len(selectedCols) :
                    ret.out[i][c] = CellNumber(data[i][selectedCols[c]])

\* a matrix built from rows with null, text and absent cells, the columns
\* selected in the other order
C13_Witness ==
    /\ ret.fn = "fullMatrix"
    /\ selectedCols = <<"b", "a">>
    /\ {data[i][c].kind : i \in 1..Len(data), c \in Columns}
          = {"number", "numstr", "text", "null", "undefined"}

\* C14: stats and scaledStats have an entry for every cluster id below k
\* and every selected column; a cluster without rows has raw mean 0,
\* standardized mean 0 and standardized variance 0 in every column.
C14_StatsForEveryCluster ==
    IsRun =>
        LET r == ret.out
        IN  /\ Len(r.stats) = r.k
            /\ Len(r.scaledStats) = r.k
            /\ \A i \in 1..r.k :
                  /\ Len(r.stats[i]) = Len(selectedCols)
                  /\ Len(r.scaledStats[i]) = Len(selectedCols)
                  /\ (i - 1) \notin Range(r.clusters) =>
                        \A c \in 1..Len(selectedCols) :
                            /\ r.stats[i][c] = 0
                            /\ r.scaledStats[i][c] = [mean |-> 0, variance |-> 0]

\* a run one of whose k clusters has no row, while another has rows off 0
C14_Witness ==
    /\ IsRun
    /\ \E i \in 1..ret.out.k : (i - 1) \notin Range(ret.out.clusters)
    /\ \E i \in 1..ret.out.k, c \in 1..Len(selectedCols) : ret.out.stats[i][c] # 0

\* the sum of the squared deviations from the mean
SumSqDeviations(x) ==
    LET mu == RDiv(SumSeq(x), Len(x))
    IN  SumSeq(Array([i \in 1..Len(x) |-> Sq(x[i] - mu)]))

PopulationVariance(x) == RDiv(SumSqDeviations(x), Len(x))

SampleVariance(x) == RDiv(SumSqDeviations(x), Len(x) - 1)

\* the standardized values of column c over the rows of cluster i
ClusterColumn(matrix, i, c) ==
    LET rows == SelectSeq(Iota(Len(ret.out.clusters)), LAMBDA j : ret.out.clusters[j] = i)
    IN  Array([p \in 1..Len(rows) |-> matrix[rows[p]][c]])

\* a standardized column has unit variance, up to the rounding of the mean,
\* the deviation and the quotients; over n - 1 it would be n / (n - 1)
Tolerance == S \div 20

NearOne(v) == Abs(v - S) <= Tolerance

\* C17 as stated: the variance reported for a cluster of m >= 2 rows is the
\* sum of squared deviations over m - 1, and the standardizer divides by the
\* deviation of the same convention.
C17_VarianceIsSample ==
    IsRun =>
        LET clustered == ClusteredMatrix
            full      == FullScaled
        IN  /\ \A i \in 1..ret.out.k, c \in 1..Len(selectedCols) :
                  LET col == ClusterColumn(clustered, i - 1, c)
                  IN  Len(col) >= 2 => ret.out.scaledStats[i][c].variance = SampleVariance(col)
            /\ \A c \in 1..Len(selectedCols) :
                  LET col == Column(full, c)
                  IN  (\E r \in 1..Len(data) : col[r] # 0) => NearOne(SampleVariance(col))

\* C17, amended: the variance reported for a cluster of m >= 2 rows is the
\* population variance, the sum of squared deviations over m, and the
\* standardizer divides by the population deviation as well.
C17_VarianceIsPopulation ==
    IsRun =>
        LET clustered == ClusteredMatrix
            full      == FullScaled
        IN  /\ \A i \in 1..ret.out.k, c \in 1..Len(selectedCols) :
                  LET col == ClusterColumn(clustered, i - 1, c)
                  IN  Len(col) >= 2 => ret.out.scaledStats[i][c].variance = PopulationVariance(col)
            /\ \A c \in 1..Len(selectedCols) :
                  LET col == Column(full, c)
                  IN  (\E r \in 1..Len(data) : col[r] # 0) => NearOne(PopulationVariance(col))

\* a cluster of at least two rows whose values differ in a column
C17_Witness ==
    /\ IsRun
    /\ \E i \in 1..ret.out.k, c \in 1..Len(selectedCols) :
          /\ Len(ClusterColumn(ClusteredMatrix, i - 1, c)) >= 2
          /\ ret.out.scaledStats[i][c].variance > 0

\* the mean distance from row i of the matrix to the rows in set
MeanDistance(matrix, i, set) ==
    LET to == SelectSeq(Iota(Len(matrix)), LAMBDA j : j \in set)
    IN  RDiv(SumSeq(Array([p \in 1..Len(to) |->
                euclideanDistance(matrix[i], matrix[to[p]])])), Len(to))

Members(c) == {j \in 1..Len(ret.out.clusters) : ret.out.clusters[j] = c}

\* a(i): 0 for a singleton cluster
SilhouetteA(matrix, i) ==
    LET same == Members(ret.out.clusters[i]) \ {i}
    IN  IF same = {} THEN 0 ELSE MeanDistance(matrix, i, same)

\* b(i), for a row with another cluster to compare with
SilhouetteB(matrix, i) ==
    Minimum({MeanDistance(matrix, i, Members(c)) :
                c \in Range(ret.out.clusters) \ {ret.out.clusters[i]}})

\* s(i): 0 when there is one cluster only or the denominator is 0
SilhouetteS(matrix, i) ==
    IF Range(ret.out.clusters) = {ret.out.clusters[i]} THEN 0
    ELSE LET a == SilhouetteA(matrix, i)
             b == SilhouetteB(matrix, i)
         IN  IF Max2(a, b) = 0 THEN 0 ELSE FDiv(b - a, Max2(a, b))

\* C18: calculateSilhouette gives each row s(i) = (b(i) - a(i)) / max(a(i), b(i)),
\* a(i) being 0 for a singleton cluster, and 0 where the denominator is 0 or
\* there is one cluster only; each value is in [-1, 1] and the average is the
\* arithmetic mean of the values.
C18_SilhouetteFormula ==
    IsRun =>
        LET samples == ret.out.silhouetteSamples
            n       == Len(ret.out.clusters)
            matrix  == ClusteredMatrix
        IN  /\ Len(samples) = n
            /\ \A i \in 1..n :
                  /\ samples[i].cluster = ret.out.clusters[i]
                  /\ samples[i].value = SilhouetteS(matrix, i)
                  /\ samples[i].value >= 0 - S
                  /\ samples[i].value <= S
            /\ ret.out.avgSilhouette
                  = RDiv(SumSeq(Array([i \in 1..n |-> samples[i].value])), n)

\* a run with a row nearer to another cluster than to its own, and a row
\* alone in its cluster
C18_Witness ==
    /\ IsRun
    /\ \E i \in 1..Len(ret.out.clusters) : ret.out.silhouetteSamples[i].value < 0
    /\ \E i \in 1..Len(ret.out.clusters) : Members(ret.out.clusters[i]) = {i}

\* the rows left out of the clustering: the outliers when they are excluded
Excluded == IF ret.mode THEN Range(ret.out.outlierIndices) ELSE {}

\* C19: the index mapping lists, in ascending order and each once, the rows
\* outside the excluded set (all rows, in order, when outliers are kept);
\* row j of the clustered matrix is row mapping[j] of the matrix
\* standardized on all rows; clusters has one label per mapped row.
C19_MappingIsOrderedBijection ==
    /\ ret.fn = "filter" =>
          LET m    == ret.out.mappingIndices
              full == FullScaled
          IN  /\ \A p, q \in 1..Len(m) : p < q => m[p] < m[q]
              /\ Range(m) = (1..Len(data)) \ Excluded
              /\ ~ret.mode => m = Iota(Len(data))
              /\ Len(ret.out.finalMatrix) = Len(m)
              /\ \A j \in 1..Len(m) : ret.out.finalMatrix[j] = full[m[j]]
    /\ IsRun => Len(ret.out.clusters) = Len(data) - Cardinality(Excluded)

\* outliers are excluded and a row after an excluded one moves up
C19_Witness ==
    /\ ret.fn = "filter"
    /\ ret.mode
    /\ \E j \in 1..Len(ret.out.mappingIndices) :
          /\ ret.out.mappingIndices[j] # j
          /\ ret.out.finalMatrix[j] # FullScaled[j]

----------------------------------------------------------------------------
(* Properties of detectOutliers, checked under SpecDetect *)

IsDetect == ret.fn = "detectOutliers"

\* the distances from row i to the other rows, ascending
DistancesToOthers(matrix, i) ==
    LET others == SelectSeq(Iota(Len(matrix)), LAMBDA j : j # i)
    IN  SortAsc(Array([p \in 1..Len(others) |-> euclideanDistance(matrix[i], matrix[others[p]])]))

\* the mean of the 5 smallest of them, of all of them when there are fewer
NeighbourScore(matrix, i) ==
    LET dists == DistancesToOthers(matrix, i)
    IN  mean(SubSeq(dists, 1, Min2(5, Len(dists))))

NeighbourScores(matrix) == Array([i \in 1..Len(matrix) |-> NeighbourScore(matrix, i)])

\* mean + 2 * population standard deviation
TwoSigma(scores) ==
    LET mu == RDiv(SumSeq(scores), Len(scores))
    IN  mu + 2 * FSqrt(RDiv(SumSeq(Array([i \in 1..Len(scores) |-> Sq(scores[i] - mu)])),
                            Len(scores)))

C20_FewerThanAFifth ==
    (IsDetect /\ Len(data) >= 5) =>
        /\ 5 * Len(ret.out) < Len(data)
        /\ LET scores == NeighbourScores(FullScaled)
           IN  (\A i \in 1..Len(data) : scores[i] = scores[1]) => ret.out = <<>>
        /\ Len(data) - Len(ret.out) >= 4

----------------------------------------------------------------------------
(* Properties of the standardization in floating point, checked under SpecScale *)

\* C15: a column whose values are all the same (standard deviation 0 over
\* the full population) is standardized to exactly 0 in every row.
C15_ConstantColumnIsZero ==
    (ret.fn = "standardize" /\ \A i \in 1..Len(data) : data[i] = data[1]) =>
        \A i \in 1..Len(data) : ret.out[i] = flZero

----------------------------------------------------------------------------
(* Properties of the App, checked under Spec *)

\* C10: after switchClusterMode(mode) has replaced the result, the new
\* result's excludeOutliers is mode and its k is the k of the result it
\* replaced.
C10_SwitchSetsModeKeepsK ==
    (lastOp.op = "switchClusterMode" /\ ~lastOp.threw) =>
        /\ clusterResult.excludeOutliers = JSBool(lastOp.mode)
        /\ clusterResult.k = lastOp.k

\* C11: when the K prompt gives a cluster count k, the result the cluster
\* button stores has k equal to it and excludeOutliers false.
C11_ExplicitKIsUsed ==
    (lastOp.op = "cluster" /\ ~lastOp.threw /\ lastOp.k.t = "number" /\ lastOp.k.v >= 1) =>
        /\ clusterResult.k = lastOp.k.v
        /\ clusterResult.excludeOutliers = JSBool(FALSE)

\* C21: whenever the cluster report is shown, the stored result has one
\* pcaData entry per row of data, the i-th for row i, so saveClusterFiles and
\* switchClusterMode find the rows the result was computed from.
C21_ShownResultMatchesData ==
    showModal = "cluster" =>
        /\ clusterResult # Null
        /\ Len(clusterResult.pcaData) = Len(data)
        /\ \A i \in 1..Len(data) : clusterResult.pcaData[i].index = i

----------------------------------------------------------------------------
(* Properties of the calls' effects on their arguments, checked under SpecFrame *)

\* C22: during and after calculatePearson and performClustering, in either
\* mode, the caller's rows are the rows passed in, as many and in the same
\* order, each with the values it had; the column list is unchanged too.
C22_InputsUnchanged ==
    ret.fn = "frame" =>
        /\ data = ret.before.data
        /\ selectedCols = ret.before.selectedCols

\* performClustering has returned in the mode that keeps the outliers:
\* finalData names the caller's rows, and arrays of the call were sorted
\* and written
C22_Witness ==
    /\ ret.fn = "frame"
    /\ ret.call = "performClustering"
    /\ ~ret.mode
    /\ ret.pc > Len(clusterProgram)
    /\ ret.env["finalData"] = "data"
    /\ Len(data) >= 2
    /\ ret.heap["stats"] # <<>>

====
